---- MODULE Spec2Model ----
(***************************************************************************)
(* Model of mesh/standard/requests.py: the standard request constructors,  *)
(* operator derivation and incremental field addition (add_schema_field).  *)
(*                                                                         *)
(* A name is the pair <<stem, suffix>> and stands for the string           *)
(* stem ++ suffix: the field "a" is <<"a", "">>, its sort tokens are       *)
(* <<"a", "+">>, <<"a", "-">>, its operator fields <<"a", "__in">>, ...    *)
(* A field is a record of the attributes the code reads or sets; a schema  *)
(* (the structure of a Structure, a dict of fields) is a function from     *)
(* names to fields.  An optional value (None or a field) is a set of at    *)
(* most one field.  Aspects the code only tests for truth (required,       *)
(* readonly, deferred, sortable) are booleans; the aspects it compares     *)
(* with `is True` / `is not False` (oncreate, onupdate, onput) are one of  *)
(* "None", "True", "False".  The operators aspect is the token list the    *)
(* code iterates over (after the split of line 56); <<>> is None.          *)
(***************************************************************************)
EXTENDS Integers, Sequences, FiniteSets, TLC

VARIABLES
    schema,      \* resource.schema: name -> field
    id_field,    \* resource.id_field
    requests,    \* resource.requests: request name -> Request
    declared,    \* request name -> support_returning of the declaration it was constructed with
    raised,      \* outcome of the last call: "none" or the exception it raised
    added,       \* the names passed to add_schema_field so far, in order
    clean        \* TRUE while every add_schema_field call added a new name and none raised

vars == <<schema, id_field, requests, declared, raised, added, clean>>

\* ---------------------------------------------------------------- bounds
MaxAdds == 2

\* ------------------------------------------------------------- names, maps
N(stem) == <<stem, "">>

RETURNING == N("returning")

EmptyMap == [k \in {} |-> k]

Put(m, k, v) == [x \in (DOMAIN m) \cup {k} |-> IF x = k THEN v ELSE m[x]]

Get(m, k) == IF k \in DOMAIN m THEN {m[k]} ELSE {}

The(opt) == CHOOSE x \in opt : TRUE

\* the order of Python strings on the names of the model
StemOrder == <<"a", "b", "id", "returning">>

SuffixOrder == <<"", "+", "-">>

Index(seq, x) == CHOOSE i \in 1..Len(seq) : seq[i] = x

Less(t, u) ==
    \/ Index(StemOrder, t[1]) < Index(StemOrder, u[1])
    \/ t[1] = u[1] /\ Index(SuffixOrder, t[2]) < Index(SuffixOrder, u[2])

RECURSIVE InsertSorted(_, _)
InsertSorted(x, s) ==
    IF s = <<>> THEN <<x>>
    ELSE IF Less(x, Head(s)) THEN <<x>> \o s
    ELSE <<Head(s)>> \o InsertSorted(x, Tail(s))

RECURSIVE sorted(_)
sorted(tokens) ==
    IF tokens = <<>> THEN <<>>
    ELSE InsertSorted(Head(tokens), sorted(Tail(tokens)))

\* the keys of a dict, in one iteration order
RECURSIVE Keys(_)
Keys(S) ==
    IF S = {} THEN <<>>
    ELSE LET k == CHOOSE x \in S : TRUE IN <<k>> \o Keys(S \ {k})

Elems(seq) == {seq[i] : i \in 1..Len(seq)}

\* ------------------------------------------------------------------ fields
\* a field as its constructor leaves it when given no arguments
Field ==
    [name |-> N(""), type |-> "text", required |-> FALSE, nonnull |-> FALSE,
     default |-> "None", readonly |-> FALSE, deferred |-> FALSE,
     sortable |-> FALSE, operators |-> <<>>, oncreate |-> "None",
     onupdate |-> "None", onput |-> "None", is_identifier |-> FALSE,
     returned |-> {}, ignore_null |-> FALSE, unique |-> FALSE,
     minimum |-> "None", enumeration |-> <<>>, item |-> {},
     structure |-> EmptyMap]

Boolean == [Field EXCEPT !.type = "boolean"]

Integer == [Field EXCEPT !.type = "integer"]

Enumeration(tokens) ==
    [Field EXCEPT !.type = "enumeration", !.enumeration = tokens]

Sequence(item) == [Field EXCEPT !.type = "sequence", !.item = {item}]

\* the structure of Structure(fields): every entry is named by its key
Named(fields) == [k \in DOMAIN fields |-> [fields[k] EXCEPT !.name = k]]

Structure(fields) ==
    [Field EXCEPT !.type = "structure", !.structure = Named(fields)]

\* Structure.insert(field, overwrite)
StructureInsert(m, f, overwrite) ==
    IF f.name \notin DOMAIN m \/ overwrite THEN Put(m, f.name, f) ELSE m

\* Enumeration.redefine_enumeration(tokens)
redefine_enumeration(e, tokens) == [e EXCEPT !.enumeration = tokens]

\* Resource.filter_schema(exclusive=False, readonly=...)
filter_schema(s, readonly) ==
    IF readonly THEN s
    ELSE [k \in {x \in DOMAIN s : ~s[x].readonly} |-> s[k]]

\* ------------------------------------------------------ operator derivation
Operators ==
    {"equal", "iequal", "not", "inot", "prefix", "iprefix", "suffix",
     "isuffix", "contains", "icontains", "gt", "gte", "lt", "lte", "null",
     "in", "notin"}

OpSuffix(operator) ==
    CASE operator = "iequal" -> "__iequal" [] operator = "not" -> "__not"
      [] operator = "inot" -> "__inot" [] operator = "prefix" -> "__prefix"
      [] operator = "iprefix" -> "__iprefix" [] operator = "suffix" -> "__suffix"
      [] operator = "isuffix" -> "__isuffix" [] operator = "contains" -> "__contains"
      [] operator = "icontains" -> "__icontains" [] operator = "gt" -> "__gt"
      [] operator = "gte" -> "__gte" [] operator = "lt" -> "__lt"
      [] operator = "lte" -> "__lte" [] operator = "null" -> "__null"
      [] operator = "in" -> "__in" [] operator = "notin" -> "__notin"
      [] OTHER -> ""

\* '%s__%s' % (field.name, operator), and field.name for 'equal'
OpName(field, operator) == <<field.name[1], OpSuffix(operator)>>

\* a clone that resets the value aspects and keeps the behavioural ones
clone_fieldKeepingAspects(field, name) ==
    [field EXCEPT !.name = name, !.nonnull = TRUE, !.default = "None",
                  !.required = FALSE, !.ignore_null = FALSE]

clone_field(field, name) ==
    [field EXCEPT !.name = name, !.nonnull = TRUE, !.default = "None",
                  !.required = FALSE, !.readonly = FALSE, !.deferred = FALSE,
                  !.sortable = FALSE, !.ignore_null = FALSE,
                  !.operators = <<>>]

_construct_equal_operator(field) == clone_field(field, field.name)

_construct_in_operator(field) ==
    [Sequence(clone_field(field, N(""))) EXCEPT
        !.name = OpName(field, "in"), !.nonnull = TRUE]

_construct_notin_operator(field) ==
    [Sequence(clone_field(field, N(""))) EXCEPT
        !.name = OpName(field, "notin"), !.nonnull = TRUE]

_construct_null_operator(field) ==
    [Boolean EXCEPT !.name = OpName(field, "null"), !.nonnull = TRUE]

\* the loop body without the lookup of the token among the known operators
ConstructOneAnyToken(operators, field, operator) ==
    LET operator_field ==
            CASE operator = "equal" -> _construct_equal_operator(field)
              [] operator = "in" -> _construct_in_operator(field)
              [] operator = "notin" -> _construct_notin_operator(field)
              [] operator = "null" -> _construct_null_operator(field)
              [] OTHER -> clone_field(field, OpName(field, operator))
    IN Put(operators, operator_field.name, operator_field)

\* the body of the loop of OperatorConstructor.construct for one token
ConstructOne(operators, field, operator) ==
    IF operator \in Operators
    THEN LET operator_field ==
                CASE operator = "equal" -> _construct_equal_operator(field)
                  [] operator = "in" -> _construct_in_operator(field)
                  [] operator = "notin" -> _construct_notin_operator(field)
                  [] operator = "null" -> _construct_null_operator(field)
                  [] OTHER -> clone_field(field, OpName(field, operator))
         IN Put(operators, operator_field.name, operator_field)
    ELSE operators

RECURSIVE ConstructLoop(_, _, _)
ConstructLoop(operators, field, supported) ==
    IF supported = <<>> THEN operators
    ELSE ConstructLoop(ConstructOne(operators, field, Head(supported)),
                       field, Tail(supported))

\* OperatorConstructor.construct(operators, field)
construct(operators, field) == ConstructLoop(operators, field, field.operators)

\* ------------------------------------------------ selection schema builders
OriginalTokens(original) ==
    IF original # {} THEN The(The(original).item).enumeration ELSE <<>>

construct_fields_field(fields, original) ==
    LET tokens == OriginalTokens(original) \o Keys(DOMAIN fields)
    IN [Sequence([Enumeration(sorted(tokens)) EXCEPT !.nonnull = TRUE]) EXCEPT
            !.name = N("fields"), !.unique = TRUE]

construct_exclude_field(id, fields, original) ==
    LET tokens == OriginalTokens(original) \o
                  SelectSeq(Keys(DOMAIN fields),
                            LAMBDA name : name # id.name /\ ~fields[name].deferred)
    IN IF tokens # <<>>
       THEN {[Sequence([Enumeration(sorted(tokens)) EXCEPT !.nonnull = TRUE])
                EXCEPT !.name = N("exclude")]}
       ELSE {}

construct_include_field(fields, original) ==
    LET tokens == OriginalTokens(original) \o
                  SelectSeq(Keys(DOMAIN fields),
                            LAMBDA name : fields[name].deferred)
    IN IF tokens # <<>>
       THEN {[Sequence([Enumeration(sorted(tokens)) EXCEPT !.nonnull = TRUE])
                EXCEPT !.name = N("include")]}
       ELSE {}

construct_returning(res) ==
    Sequence([Enumeration(sorted(Keys(DOMAIN res.schema))) EXCEPT !.nonnull = TRUE])

\* name, name + '+', name + '-'
SuffixTokens(name) == <<name, <<name[1], "+">>, <<name[1], "-">>>>

\* ------------------------------------------------------- response filtering
filter_schema_for_response(res) ==
    LET all == filter_schema(res.schema, TRUE)
    IN [name \in DOMAIN all |->
            IF name = res.id_field.name THEN [all[name] EXCEPT !.required = TRUE]
            ELSE IF all[name].required THEN [all[name] EXCEPT !.required = FALSE]
            ELSE all[name]]

is_returned(field, request) == request \in field.returned

\* the declaration's flag alone, the schema not looked at
is_returning_supportedUnchecked(res, support_returning) ==
    IF support_returning THEN "yes" ELSE "no"

\* is_returning_supported: "raise" when the declaration asks for returning and
\* the schema has a field of that name, else the declaration's flag
is_returning_supported(res, support_returning) ==
    IF support_returning /\ RETURNING \in DOMAIN res.schema THEN "raise"
    ELSE IF support_returning THEN "yes" ELSE "no"

\* ------------------------------------------------------ request constructors
Request(name, input, response) ==
    [name |-> name, schema |-> input,
     responses |-> [OK |-> response, INVALID |-> "Errors"]]

RECURSIVE SortTokens(_, _)
SortTokens(fields, names) ==
    IF names = <<>> THEN <<>>
    ELSE (IF fields[Head(names)].sortable THEN SuffixTokens(Head(names)) ELSE <<>>)
         \o SortTokens(fields, Tail(names))

RECURSIVE AllOperators(_, _, _)
AllOperators(operators, fields, names) ==
    IF names = <<>> THEN operators
    ELSE AllOperators(IF fields[Head(names)].operators # <<>>
                      THEN construct(operators, fields[Head(names)])
                      ELSE operators,
                      fields, Tail(names))

\* the fields / include / exclude entries shared by get and query
Selectors(res, fields) ==
    LET s0 == Put(EmptyMap, N("fields"), construct_fields_field(fields, {}))
        include_field == construct_include_field(fields, {})
        s1 == IF include_field # {} THEN Put(s0, N("include"), The(include_field)) ELSE s0
        exclude_field == construct_exclude_field(res.id_field, fields, {})
    IN IF exclude_field # {} THEN Put(s1, N("exclude"), The(exclude_field)) ELSE s1

construct_query_request(res) ==
    LET fields == filter_schema_for_response(res)
        s0 == Selectors(res, fields)
        s1 == Put(s0, N("limit"), [Integer EXCEPT !.minimum = "0"])
        s2 == Put(s1, N("offset"), [Integer EXCEPT !.minimum = "0", !.default = "0"])
        s3 == Put(s2, N("total"), [Boolean EXCEPT !.default = "False", !.nonnull = TRUE])
        tokens == SortTokens(fields, Keys(DOMAIN fields))
        s4 == IF tokens # <<>>
              THEN Put(s3, N("sort"),
                       Sequence([Enumeration(sorted(tokens)) EXCEPT !.nonnull = TRUE]))
              ELSE s3
        operators == AllOperators(EmptyMap, fields, Keys(DOMAIN fields))
        s5 == IF operators # EmptyMap
              THEN Put(s4, N("query"), Structure(operators))
              ELSE s4
        response_schema ==
            Put(Put(EmptyMap, N("total"),
                    [Integer EXCEPT !.nonnull = TRUE, !.minimum = "0"]),
                N("resources"),
                [Sequence(Structure(fields)) EXCEPT !.nonnull = TRUE])
    IN Request("query", Named(s5), Named(response_schema))

construct_get_request(res) ==
    LET fields == filter_schema_for_response(res)
    IN Request("get", Named(Selectors(res, fields)), Named(fields))

\* the response schema of create, put and update
MutationResponse(res, request, support_returning) ==
    LET kept == {name \in DOMAIN res.schema :
                    \/ res.schema[name].is_identifier
                    \/ is_returned(res.schema[name], request)
                    \/ support_returning}
    IN [name \in kept |->
            [res.schema[name] EXCEPT !.required =
                res.schema[name].is_identifier \/ is_returned(res.schema[name], request)]]

\* the input schema with the returning selector added when it is supported
WithReturning(res, resource_schema, support_returning) ==
    IF support_returning
    THEN Put(resource_schema, RETURNING, construct_returning(res))
    ELSE resource_schema

CreateInput(res) ==
    LET writable == filter_schema(res.schema, FALSE)
        kept == {name \in DOMAIN writable :
                    IF writable[name].is_identifier
                    THEN writable[name].oncreate = "True"
                    ELSE writable[name].oncreate # "False"}
    IN [name \in kept |->
            IF writable[name].is_identifier
            THEN [writable[name] EXCEPT !.ignore_null = TRUE]
            ELSE writable[name]]

construct_create_request(res, support_returning) ==
    Request("create",
            Named(WithReturning(res, CreateInput(res), support_returning)),
            Named(MutationResponse(res, "create", support_returning)))

PutInput(res) ==
    LET writable == filter_schema(res.schema, FALSE)
        kept == {name \in DOMAIN writable :
                    ~writable[name].is_identifier /\ writable[name].onput # "False"}
    IN [name \in kept |-> writable[name]]

construct_put_request(res, support_returning) ==
    Request("put",
            Named(WithReturning(res, PutInput(res), support_returning)),
            Named(MutationResponse(res, "put", support_returning)))

UpdateInput(res) ==
    LET writable == filter_schema(res.schema, FALSE)
        kept == {name \in DOMAIN writable :
                    ~writable[name].is_identifier /\ writable[name].onupdate # "False"}
    IN [name \in kept |->
            IF writable[name].required
            THEN [writable[name] EXCEPT !.required = FALSE]
            ELSE writable[name]]

construct_update_request(res, support_returning) ==
    Request("update",
            Named(WithReturning(res, UpdateInput(res), support_returning)),
            Named(MutationResponse(res, "update", support_returning)))

\* STANDARD_REQUESTS[name](resource, declaration)
Constructed(name, res, support_returning) ==
    CASE name = "get" -> construct_get_request(res)
      [] name = "query" -> construct_query_request(res)
      [] name = "create" -> construct_create_request(res, support_returning)
      [] name = "put" -> construct_put_request(res, support_returning)
      [] name = "update" -> construct_update_request(res, support_returning)

\* -------------------------------------------------- incremental field addition
\* add_schema_field runs on w = [schema, requests, raised]; once a statement has
\* raised, the rest of the call is skipped and what was patched before stays.

\* fields, then include or exclude (lines 113-121 and 127-135); the insert of
\* the None that construct_exclude_field returns for an empty token list raises
AddSelectors(input, id, field) ==
    LET one == Put(EmptyMap, field.name, field)
        s1 == StructureInsert(input,
                  construct_fields_field(one, Get(input, N("fields"))), TRUE)
        selector == IF field.deferred
                    THEN construct_include_field(one, Get(s1, N("include")))
                    ELSE construct_exclude_field(id, one, Get(s1, N("exclude")))
    IN [schema |-> IF selector # {} THEN StructureInsert(s1, The(selector), TRUE) ELSE s1,
        raised |-> IF selector # {} THEN "none" ELSE "TypeError"]

AddToGet(w, id, field) ==
    IF "get" \notin DOMAIN w.requests \/ w.raised # "none" THEN w
    ELSE LET request == w.requests["get"]
             response == StructureInsert(request.responses.OK, field, FALSE)
             sel == AddSelectors(request.schema, id, field)
         IN [w EXCEPT !.requests["get"] =
                        [request EXCEPT !.responses.OK = response,
                                        !.schema = sel.schema],
                      !.raised = sel.raised]

RECURSIVE InsertAll(_, _, _)
InsertAll(structure, operators, names) ==
    IF names = <<>> THEN structure
    ELSE InsertAll(StructureInsert(structure, operators[Head(names)], FALSE),
                   operators, Tail(names))

\* lines 137-139
AddOperators(input, field) ==
    LET operators == IF field.operators # <<>> THEN construct(EmptyMap, field)
                     ELSE EmptyMap
    IN IF operators = EmptyMap THEN [schema |-> input, raised |-> "none"]
       ELSE IF N("query") \notin DOMAIN input
       THEN [schema |-> input, raised |-> "KeyError"]
       ELSE [schema |-> [input EXCEPT ![N("query")].structure =
                            InsertAll(@, operators, Keys(DOMAIN operators))],
             raised |-> "none"]

\* lines 141-151
AddSort(input, field) ==
    IF ~field.sortable THEN input
    ELSE LET tokens == SuffixTokens(field.name)
         IN IF N("sort") \in DOMAIN input
            THEN [input EXCEPT ![N("sort")].item =
                        {redefine_enumeration(The(@), tokens)}]
            ELSE Put(input, N("sort"),
                     Sequence([Enumeration(sorted(tokens)) EXCEPT !.nonnull = TRUE]))

AddToQuery(w, id, field) ==
    IF "query" \notin DOMAIN w.requests \/ w.raised # "none" THEN w
    ELSE LET request == w.requests["query"]
             response ==
                [request.responses.OK EXCEPT ![N("resources")].item =
                    {[The(@) EXCEPT !.structure = StructureInsert(@, field, FALSE)]}]
             sel == AddSelectors(request.schema, id, field)
             ops == IF sel.raised = "none" THEN AddOperators(sel.schema, field) ELSE sel
             input == IF ops.raised = "none" THEN AddSort(ops.schema, field)
                      ELSE ops.schema
         IN [w EXCEPT !.requests["query"] =
                        [request EXCEPT !.responses.OK = response, !.schema = input],
                      !.raised = ops.raised]

\* lines 156-157
AddToCreate(w, field) ==
    IF "create" \in DOMAIN w.requests /\ field.oncreate # "False"
    THEN [w EXCEPT !.requests["create"].schema = StructureInsert(@, field, FALSE)]
    ELSE w

\* update patched with the field as declared
AddToUpdateAsDeclared(w, field) ==
    IF "update" \in DOMAIN w.requests /\ field.onupdate # "False"
    THEN [w EXCEPT !.requests["update"].schema = StructureInsert(@, field, FALSE)]
    ELSE w

\* lines 158-159
AddToUpdate(w, field) ==
    IF "update" \in DOMAIN w.requests /\ field.onupdate # "False"
    THEN [w EXCEPT !.requests["update"].schema =
                StructureInsert(@, [field EXCEPT !.required = FALSE], FALSE)]
    ELSE w

\* lines 160-161
AddToPut(w, field) ==
    IF "put" \in DOMAIN w.requests /\ field.onput # "False"
    THEN [w EXCEPT !.requests["put"].schema = StructureInsert(@, field, FALSE)]
    ELSE w

\* the three patches without the return for a readonly field
AddToMutationsAnyField(w, field) ==
    IF w.raised # "none" THEN w
    ELSE AddToPut(AddToUpdate(AddToCreate(w, field), field), field)

\* lines 153-161
AddToMutations(w, field) ==
    IF w.raised # "none" \/ field.readonly THEN w
    ELSE AddToPut(AddToUpdate(AddToCreate(w, field), field), field)

add_schema_field(w, id, field) ==
    LET w0 == [w EXCEPT !.schema = Put(@, field.name, field)]
    IN AddToMutations(AddToQuery(AddToGet(w0, id, field), id, field), field)

\* ------------------------------------------------------------------- actions
Resource == [schema |-> schema, id_field |-> id_field]

\* A request is constructed, once, when the resource is declared: before any
\* add_schema_field call.
ConstructRequest(name, support_returning) ==
    /\ added = <<>>
    /\ name \notin DOMAIN declared
    /\ LET supported == IF name \in {"create", "put", "update"}
                        THEN is_returning_supported(Resource, support_returning)
                        ELSE "no"
       IN IF supported = "raise"
          THEN /\ requests' = requests
               /\ raised' = "Exception"
          ELSE /\ requests' = Put(requests, name,
                                  Constructed(name, Resource, supported = "yes"))
               /\ raised' = "none"
    /\ declared' = Put(declared, name, support_returning)
    /\ UNCHANGED <<schema, id_field, added, clean>>

ConstructGet == ConstructRequest("get", FALSE)

ConstructQuery == ConstructRequest("query", FALSE)

ConstructCreate(support_returning) == ConstructRequest("create", support_returning)

ConstructPut(support_returning) == ConstructRequest("put", support_returning)

ConstructUpdate(support_returning) == ConstructRequest("update", support_returning)

AddSchemaField(field) ==
    /\ Len(added) < MaxAdds
    /\ LET w == add_schema_field(
                    [schema |-> schema, requests |-> requests, raised |-> "none"],
                    id_field, field)
       IN /\ schema' = w.schema
          /\ requests' = w.requests
          /\ raised' = w.raised
          /\ clean' = (clean /\ field.name \notin DOMAIN schema /\ w.raised = "none")
    /\ added' = Append(added, field.name)
    /\ UNCHANGED <<id_field, declared>>

\* ------------------------------------------------------ inputs and behaviours
\* the identifier of the resource
IdField ==
    [Field EXCEPT !.name = N("id"), !.type = "integer", !.nonnull = TRUE,
                  !.is_identifier = TRUE]

OperatorChoices ==
    {<<>>, <<"equal", "in", "null">>, <<"prefix", "bogus", "notin", "prefix">>}

\* Fields that differ in the aspects get and query read.  readonly and default
\* are read by neither; they follow deferred and required so that the clones of
\* operator derivation have set aspects to reset.
QueryField(stem, required, deferred, sortable, operators) ==
    [Field EXCEPT !.name = N(stem), !.required = required, !.deferred = deferred,
                  !.sortable = sortable, !.operators = operators,
                  !.default = IF required THEN "None" ELSE "x",
                  !.readonly = deferred]

SelectionFields ==
    {QueryField(stem, required, deferred, sortable, <<>>)
        : stem \in {"a", "b"}, required \in BOOLEAN, deferred \in BOOLEAN,
          sortable \in BOOLEAN}

OperatorFields ==
    {QueryField("a", required, deferred, sortable, operators)
        : required \in BOOLEAN, deferred \in BOOLEAN, sortable \in BOOLEAN,
          operators \in OperatorChoices}

OtherOperatorFields ==
    {QueryField("b", TRUE, deferred, sortable,
                IF sortable THEN <<"equal", "in", "null">> ELSE <<>>)
        : deferred \in BOOLEAN, sortable \in BOOLEAN}

OnChoices ==
    {<<"None", "None", "None">>, <<"True", "True", "True">>,
     <<"False", "False", "False">>, <<"True", "False", "None">>,
     <<"None", "True", "False">>, <<"False", "None", "True">>}

\* fields that differ in the aspects create, update and put read
MutationFields ==
    {[Field EXCEPT !.name = N("a"), !.required = required, !.readonly = readonly,
                   !.oncreate = on[1], !.onupdate = on[2], !.onput = on[3]]
        : required \in BOOLEAN, readonly \in BOOLEAN, on \in OnChoices}

ReturningField == [Field EXCEPT !.name = RETURNING]

\* fields for the five requests together
StandardFields ==
    {[Field EXCEPT !.name = N(stem), !.required = required, !.sortable = sortable,
                   !.operators = operators]
        : stem \in {"a", "b"}, required \in BOOLEAN, sortable \in BOOLEAN,
          operators \in {<<>>, <<"equal">>}}

InitWith(ids, fields) ==
    /\ id_field \in ids
    /\ \E initial \in {{}} \cup {{f} : f \in fields} :
          schema = [name \in {id_field.name} \cup {f.name : f \in initial} |->
                        IF name = id_field.name THEN id_field
                        ELSE (CHOOSE f \in initial : f.name = name)]
    /\ requests = EmptyMap
    /\ declared = EmptyMap
    /\ raised = "none"
    /\ added = <<>>
    /\ clean = TRUE

\* get and query and their selectors
Init == InitWith({IdField}, {f \in SelectionFields : f.name = N("b")})

Next ==
    \/ ConstructGet
    \/ ConstructQuery
    \/ \E field \in SelectionFields \cup {IdField} : AddSchemaField(field)

Spec == Init /\ [][Next]_vars

\* query and the operators of its fields
InitOperators == InitWith({IdField}, OtherOperatorFields)

NextOperators ==
    \/ ConstructQuery
    \/ \E field \in OperatorFields \cup {IdField} : AddSchemaField(field)

SpecOperators == InitOperators /\ [][NextOperators]_vars

\* create, put and update, with and without returning
InitMutation ==
    InitWith({IdField, [IdField EXCEPT !.oncreate = "True"]},
             {ReturningField, [Field EXCEPT !.name = N("a"), !.required = TRUE]})

NextMutation ==
    \/ \E support_returning \in BOOLEAN : ConstructCreate(support_returning)
    \/ \E support_returning \in BOOLEAN : ConstructPut(support_returning)
    \/ \E support_returning \in BOOLEAN : ConstructUpdate(support_returning)
    \/ \E field \in MutationFields \cup {ReturningField, IdField,
                                         [IdField EXCEPT !.oncreate = "True"]} :
          AddSchemaField(field)

SpecMutation == InitMutation /\ [][NextMutation]_vars

\* the five requests of one resource that starts with its identifier alone
InitStandard == InitWith({IdField}, {})

NextStandard ==
    \/ ConstructGet
    \/ ConstructQuery
    \/ \E support_returning \in BOOLEAN : ConstructCreate(support_returning)
    \/ \E support_returning \in BOOLEAN : ConstructPut(support_returning)
    \/ \E support_returning \in BOOLEAN : ConstructUpdate(support_returning)
    \/ \E field \in StandardFields : AddSchemaField(field)

SpecStandard == InitStandard /\ [][NextStandard]_vars

\* -------------------------------------------------------------------- claims
Built(name) == name \in DOMAIN requests

Input(name) == requests[name].schema

GetFields == requests["get"].responses.OK

QueryItem == The(requests["query"].responses.OK[N("resources")].item).structure

\* the tokens of the selector `key` of an input schema, as a list
TokensOf(input, key) ==
    IF key \in DOMAIN input THEN The(input[key].item).enumeration ELSE <<>>

NoDuplicates(seq) == \A i, j \in 1..Len(seq) : seq[i] = seq[j] => i = j

\* C1: when the five standard requests were constructed and fields with new
\* names were then added one by one (no call raising), every request equals,
\* input schema and response schema, the request constructed from the schema
\* that holds all the fields.
C1_IncrementalEqualsConstructed ==
    (clean /\ {"create", "get", "query", "update", "put"} \subseteq DOMAIN requests)
        => \A name \in DOMAIN requests :
              /\ requests[name].schema
                    = Constructed(name, Resource, declared[name]).schema
              /\ requests[name].responses
                    = Constructed(name, Resource, declared[name]).responses

\* C2: the sort enumeration of the query request is exactly the tokens n, n+,
\* n- of the sortable fields of the resource schema, and the sort field is
\* absent exactly when no field is sortable.
C2_SortTokensOfSortableFields ==
    Built("query") =>
        LET wanted == UNION {Elems(SuffixTokens(n)) :
                                n \in {x \in DOMAIN schema : schema[x].sortable}}
        IN /\ (N("sort") \in DOMAIN Input("query")) <=> (wanted # {})
           /\ Elems(TokensOf(Input("query"), N("sort"))) = wanted

C4_IdentifierOptIn ==
    Built("create") =>
        \A k \in {x \in DOMAIN schema : schema[x].is_identifier} :
            /\ (k \in DOMAIN Input("create")) <=> (schema[k].oncreate = "True")
            /\ k \in DOMAIN Input("create")
                  => Input("create")[k] = [schema[k] EXCEPT !.ignore_null = TRUE]

\* the query filter structure, empty when the query request has none
QueryOperators ==
    IF N("query") \in DOMAIN Input("query")
    THEN Input("query")[N("query")].structure ELSE EmptyMap

\* the keys the recognized tokens of the fields of the schema stand for
OperatorKeys ==
    UNION {{OpName(schema[k], t) : t \in Elems(schema[k].operators) \cap Operators}
              : k \in DOMAIN schema}

\* the keys and the shape of the entries of a field with 'equal in null'
EqualInNull(k, required) ==
    LET in_field == QueryOperators[<<k[1], "__in">>]
        null_field == QueryOperators[<<k[1], "__null">>]
    IN /\ {x \in DOMAIN QueryOperators : x[1] = k[1]}
            = {k, <<k[1], "__in">>, <<k[1], "__null">>}
       /\ in_field.type = "sequence" /\ in_field.nonnull
       /\ in_field.required = required
       /\ Cardinality(in_field.item) = 1
       /\ \A i \in in_field.item : i.type = schema[k].type /\ i.operators = <<>>
       /\ null_field.type = "boolean" /\ null_field.nonnull
       /\ null_field.required = required

C6_UpdateFieldsOptional ==
    Built("update") => \A k \in DOMAIN Input("update") : ~Input("update")[k].required

\* C6 witness: a field declared required was added under a new name and is in
\* the update input.
C6_Witness ==
    /\ Built("update") /\ clean /\ added = <<N("a")>>
    /\ schema[N("a")].required
    /\ N("a") \in DOMAIN Input("update")

\* C7: with support_returning and a field named RETURNING in the schema the
\* constructors of create, put and update raise and no request is produced;
\* with support_returning and no such field the request they return has the
\* returning selector, which enumerates the names of the resource schema.
C7_ReturningConflict ==
    added = <<>> =>
        /\ \A name \in {"create", "put", "update"} \cap DOMAIN declared :
              IF declared[name] /\ RETURNING \in DOMAIN schema
              THEN ~Built(name)
              ELSE /\ Built(name)
                   /\ declared[name] =>
                        /\ RETURNING \in DOMAIN Input(name)
                        /\ Input(name)[RETURNING].type = "sequence"
                        /\ Elems(TokensOf(Input(name), RETURNING)) = DOMAIN schema
        /\ raised = "Exception" =>
              \E name \in DOMAIN declared : declared[name] /\ ~Built(name)

\* C7 witness: create was declared with support_returning on a schema that has
\* a field named RETURNING, and the constructor raised.
C7_Witness ==
    /\ RETURNING \in DOMAIN schema
    /\ "create" \in DOMAIN declared /\ declared["create"]
    /\ ~Built("create") /\ raised = "Exception"

\* C8: the get response schema and the item schema of the query response hold
\* the identifier with required = True and every other field with required =
\* False.
C8_OnlyIdentifierRequired ==
    /\ Built("get") =>
          /\ id_field.name \in DOMAIN GetFields
          /\ \A k \in DOMAIN GetFields : GetFields[k].required = (k = id_field.name)
    /\ Built("query") =>
          /\ id_field.name \in DOMAIN QueryItem
          /\ \A k \in DOMAIN QueryItem : QueryItem[k].required = (k = id_field.name)

Neutral(f) ==
    /\ f.operators = <<>>
    /\ ~f.sortable /\ ~f.deferred /\ ~f.readonly /\ ~f.required
    /\ f.default = "None"

\* C9: every entry of the query filter structure, and the item of every
\* sequence among them, has operators none, sortable, deferred, readonly and
\* required false and default none; deriving operators from the entries, as the
\* query constructor does from fields, gives nothing.
C9_OperatorFieldsNeutral ==
    Built("query") =>
        /\ \A k \in DOMAIN QueryOperators :
              /\ Neutral(QueryOperators[k])
              /\ \A i \in QueryOperators[k].item : Neutral(i)
        /\ AllOperators(EmptyMap, QueryOperators, Keys(DOMAIN QueryOperators))
              = EmptyMap

\* C9 witness: the operators of a sortable, deferred, readonly field with a
\* default were derived by add_schema_field into a structure that held those
\* of a required field.
C9_Witness ==
    /\ Built("query") /\ clean /\ added = <<N("a")>>
    /\ schema[N("a")].sortable /\ schema[N("a")].deferred
    /\ schema[N("a")].readonly /\ schema[N("a")].default = "x"
    /\ {<<"a", "">>, <<"a", "__in">>, <<"b", "">>, <<"b", "__in">>}
          \subseteq DOMAIN QueryOperators

\* the selectors of an input schema agree with the response fields
SelectorsAgree(input, fields) ==
    /\ NoDuplicates(TokensOf(input, N("fields")))
    /\ Elems(TokensOf(input, N("fields"))) = DOMAIN fields
    /\ Elems(TokensOf(input, N("include")))
          = {k \in DOMAIN fields : fields[k].deferred}
    /\ Elems(TokensOf(input, N("exclude")))
          = {k \in DOMAIN fields : ~fields[k].deferred /\ k # id_field.name}

\* C10: for get and for query, the fields enumeration has no duplicates and is
\* the set of response field names, include is the deferred names and exclude
\* the names that are neither deferred nor the identifier.
C10_SelectorsAgreeWithResponse ==
    /\ Built("get") => SelectorsAgree(Input("get"), GetFields)
    /\ Built("query") => SelectorsAgree(Input("query"), QueryItem)

\* C11: add_schema_field is all-or-nothing: a call that raises leaves
\* resource.schema and every request, input schema and response schema, as
\* they were before the call.
C11_AddSchemaFieldAllOrNothing ==
    [][(added' # added /\ raised' # "none")
          => (schema' = schema /\ requests' = requests)]_vars
====
